---- MODULE Spec2Model ----
(***************************************************************************)
(* Model of the label-curation tools of edenartlab/aesthetic_scoring:      *)
(*   03_label_images.py   the interactive review session (label_dataset)   *)
(*   05_predict_labels.py the offline prediction pass (module top level)   *)
(* Both programs share one record store, the CSV file next to the image    *)
(* directory.  They are separate invocations and never run at the same     *)
(* time; `mode` says which one is running.                                 *)
(*                                                                         *)
(* Numbers: scores and labels are floats in the source.  The model counts  *)
(* them in units of 0.05, so the label of digit key d, d / 10.0, is 2 * d; *)
(* model scores are even numbers of units, which keeps medians integral.   *)
(* NaN, pandas' missing value, is the number -1.  Image identifiers are    *)
(* the numbers 1..NumImages; their order is the order of the file names.   *)
(***************************************************************************)
EXTENDS Integers, Sequences, FiniteSets, TLC

\* ---------------------------------------------------------------- bounds
\* number of *.jpg files in root_directory
NumImages == 17
\* program invocations (sessions and prediction passes) in one behaviour
MaxRuns == 3
\* keys the reviewer presses in one behaviour
MaxKeys == 2
\* data lines a save has written when it is interrupted, at most
MaxKillLines == 1

\* ------------------------------------------------------- program constants
batch_size == 16
FlushEvery == 100
NaN == -1

\* key codes of cv2.waitKey that label_dataset tells apart
ORD_0 == 48
ORD_9 == 57
ORD_q == 113
KEY_ESC == 27
KEY_LEFT == 81
KEY_RIGHT == 83

\* the keys the reviewer presses in the model: '0', '4', q, esc, the arrows
\* and one key with no meaning to the session (space, 32)
KeyCodes == {ORD_0, ORD_0 + 4, ORD_q, KEY_ESC, KEY_LEFT, KEY_RIGHT, 32}

\* output[i][0] of the model pickled in model_file for the image uuid, in
\* units of 0.05: the scores 0.1, 0.2, 0.3 and 0.4, each given to several images
ModelScore(uuid) == 2 * ((uuid % 4) + 1)

Corpus == 1..NumImages

\* ---------------------------------------------------------------- helpers
Range(s) == {s[i] : i \in DOMAIN s}

Abs(x) == IF x < 0 THEN 0 - x ELSE x

\* sorted(glob.glob(root_directory/*.jpg)): the corpus in identifier order
SortedCorpus == [i \in 1..NumImages |-> i]

\* os.listdir(root_directory) returns the files in an arbitrary order; the
\* model lets it be ascending or descending
ListOrders == {"ascending", "descending"}

listdir(order) ==
  IF order = "ascending" THEN SortedCorpus
  ELSE [i \in 1..NumImages |-> NumImages + 1 - i]

\* ------------------------------------------------------------- DataFrames
\* A DataFrame is its column names in order and its rows in index order;
\* a row maps each column name to a value.
BaseColumns == <<"uuid", "label", "timestamp">>

EmptyFrame == [cols |-> BaseColumns, rows |-> <<>>]

HasCol(df, c) == c \in Range(df.cols)

\* positions of the rows of df whose uuid column equals uuid
RowsOf(df, uuid) == {i \in DOMAIN df.rows : df.rows[i]["uuid"] = uuid}

Min(S) == CHOOSE x \in S : \A y \in S : x <= y

\* database[c]: the values of a column in row order
Column(df, c) == [i \in DOMAIN df.rows |-> df.rows[i][c]]

\* database[c] = v: sets a whole column, adding it when missing
WithColumn(df, c, v) ==
  LET cols2 == IF HasCol(df, c) THEN df.cols ELSE Append(df.cols, c)
  IN [cols |-> cols2,
      rows |-> [i \in DOMAIN df.rows |->
                 [k \in Range(cols2) |-> IF k = c THEN v[i] ELSE df.rows[i][k]]]]

\* database.loc[i, c] = v: sets one cell; a missing column is added, NaN elsewhere
SetCell(df, i, c, v) ==
  LET cols2 == IF HasCol(df, c) THEN df.cols ELSE Append(df.cols, c)
  IN [cols |-> cols2,
      rows |-> [j \in DOMAIN df.rows |->
                 [k \in Range(cols2) |->
                    IF j = i /\ k = c THEN v
                    ELSE IF k \in DOMAIN df.rows[j] THEN df.rows[j][k] ELSE NaN]]]

\* a row over the columns cols: the cells new_row does not give are NaN
FillRow(cols, new_row) ==
  [k \in Range(cols) |-> IF k \in DOMAIN new_row THEN new_row[k] ELSE NaN]

\* pd.concat([database, pd.DataFrame([new_row])], ignore_index=True): the
\* columns are the union, cells nobody gave are NaN
ConcatRow(df, new_row) ==
  LET extra == {k \in DOMAIN new_row : ~HasCol(df, k)}
      Order(k) == IF k = "uuid" THEN 1 ELSE IF k = "label" THEN 2
                  ELSE IF k = "timestamp" THEN 3 ELSE 4
      RECURSIVE AddCols(_, _)
      AddCols(cols, S) ==
        IF S = {} THEN cols
        ELSE LET k == CHOOSE x \in S : \A y \in S : Order(x) <= Order(y)
             IN AddCols(Append(cols, k), S \ {k})
      cols2 == AddCols(df.cols, extra)
      Fill(r) == [k \in Range(cols2) |-> IF k \in DOMAIN r THEN r[k] ELSE NaN]
  IN [cols |-> cols2,
      rows |-> Append([j \in DOMAIN df.rows |-> Fill(df.rows[j])], Fill(new_row))]

\* ---------------------------------------------------------------- CSV file
\* The store file is absent, or a header line and data lines of cells in
\* column order; NaN is written as an empty cell and read back as NaN.
Absent == [exists |-> FALSE, header |-> <<>>, lines |-> <<>>]

\* database.to_csv(label_file, index=False), completed
to_csv(df) ==
  [exists |-> TRUE,
   header |-> df.cols,
   lines |-> [i \in DOMAIN df.rows |->
               [j \in DOMAIN df.cols |-> df.rows[i][df.cols[j]]]]]

\* what to_csv leaves when the process dies after writing k data lines
\* (k = -1: the file was opened for writing, nothing was flushed yet)
PartialCsv(df, k) ==
  IF k < 0 THEN [exists |-> TRUE, header |-> <<>>, lines |-> <<>>]
  ELSE [exists |-> TRUE, header |-> df.cols,
        lines |-> SubSeq(to_csv(df).lines, 1, k)]

\* pd.read_csv(label_file)
read_csv(f) ==
  LET Pos(c) == CHOOSE j \in DOMAIN f.header : f.header[j] = c
  IN [cols |-> f.header,
      rows |-> [i \in DOMAIN f.lines |->
                 [c \in Range(f.header) |-> f.lines[i][Pos(c)]]]]

\* ------------------------------------------------------------------ state
VARIABLES
  file,               \* the store file label_file
  backups,            \* the files of its folder whose path holds "_db_backup_"
  now,                \* int(time.time())
  mode,               \* "idle", "label", "predict", "failed" or "killed"
  runs,               \* program invocations so far
  keys,               \* keys handled so far
  error,              \* the uncaught exception of a failed program
  database,           \* the DataFrame of the running program
  sorting_option,     \* 03: the choice made in the sorting window
  image_files,        \* 03: the planned sequence
  current_index,      \* 03: position in image_files, counted from 0
  skip_labeled_files, \* 03: the parameter, cleared by the loop
  pc,                 \* 03: "loop" (top of the while loop) or "waitKey"
  key,                \* 03: the key cv2.waitKey returned
  skipArg,            \* 03: skip_labeled_files as passed to label_dataset
  acted,              \* 03: a key was handled in this session
  accepted,           \* 03: uuid and label of the last numeric input
  img_files,          \* 05: the listing being looped over
  pos,                \* 05: position of the for loop in img_files, from 1
  uuids,              \* 05: the batch being collected (features, paths, uuids)
  n_predictions,      \* 05
  oldFile             \* the store file as it was before a save was interrupted

vars == <<file, backups, now, mode, runs, keys, error, database,
          sorting_option, image_files, current_index, skip_labeled_files, pc,
          key, skipArg, acted, accepted, img_files, pos, uuids,
          n_predictions, oldFile>>

sessionVars == <<sorting_option, image_files, current_index,
                 skip_labeled_files, pc, key, skipArg, acted, accepted>>

passVars == <<img_files, pos, uuids, n_predictions>>

NoAccepted == [uuid |-> 0, label |-> NaN]

\* the locals of a program that is not running
SessionAtRest ==
  /\ sorting_option' = "uuid"
  /\ image_files' = <<>>
  /\ current_index' = 0
  /\ skip_labeled_files' = FALSE
  /\ pc' = "-"
  /\ key' = 0
  /\ skipArg' = FALSE
  /\ acted' = FALSE
  /\ accepted' = NoAccepted

PassAtRest ==
  /\ img_files' = <<>>
  /\ pos' = 0
  /\ uuids' = <<>>
  /\ n_predictions' = 0

\* The folder of the store also holds the backup of a sibling dataset.
Init ==
  /\ file = Absent
  /\ backups = {[owner |-> "other", stamp |-> 0, content |-> Absent]}
  /\ now = 0
  /\ mode = "idle"
  /\ runs = 0
  /\ keys = 0
  /\ error = "none"
  /\ database = EmptyFrame
  /\ sorting_option = "uuid"
  /\ image_files = <<>>
  /\ current_index = 0
  /\ skip_labeled_files = FALSE
  /\ pc = "-"
  /\ key = 0
  /\ skipArg = FALSE
  /\ acted = FALSE
  /\ accepted = NoAccepted
  /\ img_files = <<>>
  /\ pos = 0
  /\ uuids = <<>>
  /\ n_predictions = 0
  /\ oldFile = Absent

\* An uncaught exception ends the program: its memory is gone, the files stay.
Fail(e) ==
  /\ mode' = "failed"
  /\ error' = e
  /\ database' = EmptyFrame
  /\ SessionAtRest
  /\ PassAtRest

\* The process is killed while to_csv has written k lines of df.
Killed(df, k) ==
  /\ mode' = "killed"
  /\ oldFile' = file
  /\ file' = PartialCsv(df, k)
  /\ database' = df
  /\ SessionAtRest
  /\ PassAtRest
  /\ UNCHANGED <<backups, now, runs, keys, error>>

\* the points at which a save of df can be interrupted
KillPoints(df) ==
  {k \in (-1)..MaxKillLines : k < Len(df.rows)}

\* the traceback is printed and the shell prompt returns
Terminate ==
  /\ mode = "failed"
  /\ mode' = "idle"
  /\ error' = "none"
  /\ UNCHANGED <<file, backups, now, runs, keys, database, sessionVars,
                 passVars, oldFile>>

\* ------------------------------------------------ 05_predict_labels.py
\* the new entry of predict for uuid
PredictedRow(uuid, t) ==
  [uuid |-> uuid, timestamp |-> t, predicted_label |-> ModelScore(uuid)]

\* mutant of UpdatePrediction: the score is written to the label column
UpdatePredictionIntoLabel(df, uuid, t) ==
  LET index_to_update == Min(RowsOf(df, uuid))
  IN SetCell(SetCell(df, index_to_update, "label", ModelScore(uuid)),
             index_to_update, "timestamp", t)

\* the existing entry of uuid with the score and the timestamp updated
UpdatePrediction(df, uuid, t) ==
  LET index_to_update == Min(RowsOf(df, uuid))
  IN SetCell(SetCell(df, index_to_update, "predicted_label", ModelScore(uuid)),
             index_to_update, "timestamp", t)

\* predict raises IndexError at .index[0] when it takes the update branch for
\* a uuid that has no entry
predict_raises(batch, df, row_empty) ==
  /\ ~row_empty
  /\ \E i \in DOMAIN batch : RowsOf(df, batch[i]) = {}

\* mutant of predict: the new entries are not concatenated to the database,
\* they replace it
predict_replacing(batch, df, row_empty, t) ==
  IF row_empty
  THEN [cols |-> df.cols,
        rows |-> [i \in DOMAIN batch |->
                   FillRow(df.cols, PredictedRow(batch[i], t))]]
  ELSE [cols |-> df.cols,
        rows |-> [j \in DOMAIN df.rows |->
                   IF \E i \in DOMAIN batch :
                        j = Min(RowsOf(df, batch[i]))
                   THEN UpdatePrediction(df, df.rows[j]["uuid"], t).rows[j]
                   ELSE df.rows[j]]]

\* predict(features, paths, uuids, database, row): row is the entry of the
\* uuid the for loop is at, the last one of the batch; it alone decides, for
\* every uuid of the batch, between a new entry and an update.  The uuids of
\* a batch differ, so the passes of its loop do not read what an earlier
\* pass wrote: new entries are appended in batch order, and an update
\* changes the first entry of its uuid.  (The copies of images into
\* output_dir touch no file of the store and are left out.)
predict(batch, df, row_empty, t) ==
  IF row_empty
  THEN [cols |-> df.cols,
        rows |-> df.rows \o [i \in DOMAIN batch |->
                              FillRow(df.cols, PredictedRow(batch[i], t))]]
  ELSE [cols |-> df.cols,
        rows |-> [j \in DOMAIN df.rows |->
                   IF \E i \in DOMAIN batch :
                        j = Min(RowsOf(df, batch[i]))
                   THEN UpdatePrediction(df, df.rows[j]["uuid"], t).rows[j]
                   ELSE df.rows[j]]]

\* mutant of IsLabeled: the label is tested for truth, 0.0 counts as missing
IsLabeledTruthy(df, uuid) ==
  /\ RowsOf(df, uuid) # {}
  /\ df.rows[Min(RowsOf(df, uuid))]["label"] # NaN
  /\ df.rows[Min(RowsOf(df, uuid))]["label"] # 0

\* lines 83-90: the uuid is already part of the labeled dataset
IsLabeled(df, uuid) ==
  /\ RowsOf(df, uuid) # {}
  /\ df.rows[Min(RowsOf(df, uuid))]["label"] # NaN

\* lines 64-78: load the store, add the predicted_label column, list the images
StartPredict(order) ==
  /\ mode = "idle"
  /\ runs < MaxRuns
  /\ runs' = runs + 1
  /\ now' = now + 1
  /\ mode' = "predict"
  /\ LET df == IF file.exists THEN read_csv(file) ELSE EmptyFrame
     IN database' = IF HasCol(df, "predicted_label") THEN df
                    ELSE WithColumn(df, "predicted_label",
                                    [i \in DOMAIN df.rows |-> NaN])
  /\ img_files' = listdir(order)
  /\ pos' = 1
  /\ uuids' = <<>>
  /\ n_predictions' = 0
  /\ UNCHANGED <<file, backups, keys, error, sessionVars, oldFile>>

\* One iteration of the for loop, lines 81-105, as the values it computes:
\* skip (the continue of line 88), raises (predict fails), and otherwise the
\* DataFrame, the batch and the counter it ends with and whether it saves.
PredictStep ==
  LET uuid == img_files[pos]
      row_empty == RowsOf(database, uuid) = {}
      batch == Append(uuids, uuid)
      full == Len(batch) = batch_size
      n2 == IF full THEN n_predictions + batch_size ELSE n_predictions
  IN IF IsLabeled(database, uuid)
     THEN [skip |-> TRUE, raises |-> FALSE, df |-> database, batch |-> uuids,
           n |-> n_predictions, saves |-> FALSE]
     ELSE IF full /\ predict_raises(batch, database, row_empty)
     THEN [skip |-> FALSE, raises |-> TRUE, df |-> database, batch |-> batch,
           n |-> n_predictions, saves |-> FALSE]
     ELSE [skip |-> FALSE, raises |-> FALSE,
           df |-> IF full THEN predict(batch, database, row_empty, now)
                  ELSE database,
           batch |-> IF full THEN <<>> ELSE batch,
           n |-> n2,
           saves |-> (n2 % FlushEvery = 0)]

PredictIter ==
  /\ mode = "predict"
  /\ pos <= Len(img_files)
  /\ LET s == PredictStep
     IN IF s.raises
        THEN /\ Fail("IndexError")
             /\ UNCHANGED <<file, backups, now, runs, keys, oldFile>>
        ELSE /\ database' = s.df
             /\ uuids' = s.batch
             /\ n_predictions' = s.n
             /\ pos' = pos + 1
             /\ file' = IF s.saves THEN to_csv(s.df) ELSE file
             /\ UNCHANGED <<backups, now, mode, runs, keys, error, img_files,
                            sessionVars, oldFile>>

\* line 94: the image is not skipped and its feature file {uuid}.pt is
\* missing or unreadable; torch.load raises and the pass ends there
PredictIterNoFeature ==
  /\ mode = "predict"
  /\ pos <= Len(img_files)
  /\ ~IsLabeled(database, img_files[pos])
  /\ Fail("FileNotFoundError")
  /\ UNCHANGED <<file, backups, now, runs, keys, oldFile>>

\* the same iteration, killed inside the to_csv of line 105
PredictIterKilled(k) ==
  /\ mode = "predict"
  /\ pos <= Len(img_files)
  /\ ~PredictStep.raises
  /\ PredictStep.saves
  /\ k \in KillPoints(PredictStep.df)
  /\ Killed(PredictStep.df, k)

\* line 107: the loop is over, the store is saved and the program ends
PredictEnd ==
  /\ mode = "predict"
  /\ pos > Len(img_files)
  /\ file' = to_csv(database)
  /\ mode' = "idle"
  /\ database' = EmptyFrame
  /\ PassAtRest
  /\ UNCHANGED <<backups, now, runs, keys, error, sessionVars, oldFile>>

\* the program killed inside the to_csv of line 107
PredictEndKilled(k) ==
  /\ mode = "predict"
  /\ pos > Len(img_files)
  /\ k \in KillPoints(database)
  /\ Killed(database, k)

\* -------------------------------------------------- 03_label_images.py
\* relabel_image(uuid, label, database) at time t
relabel_image(uuid, label, df, t) ==
  IF RowsOf(df, uuid) = {}
  THEN ConcatRow(df, [uuid |-> uuid, label |-> label, timestamp |-> t])
  ELSE LET index_to_update == Min(RowsOf(df, uuid))
       IN SetCell(SetCell(df, index_to_update, "label", label),
                  index_to_update, "timestamp", t)

\* mutant of fix_database: the test of line 157 is missing, the label column
\* is copied to predicted_label for every row
fix_database_unguarded(df) ==
  WithColumn(df, "predicted_label", Column(df, "label"))

\* fix_database: every row with a label gets it copied to predicted_label;
\* the first such assignment adds the column when the DataFrame lacks it
fix_database(df) ==
  LET filled == {i \in DOMAIN df.rows : df.rows[i]["label"] # NaN}
      cols2 == IF filled = {} \/ HasCol(df, "predicted_label") THEN df.cols
               ELSE Append(df.cols, "predicted_label")
  IN [cols |-> cols2,
      rows |-> [i \in DOMAIN df.rows |->
                 [k \in Range(cols2) |->
                    IF k = "predicted_label" /\ i \in filled
                    THEN df.rows[i]["label"]
                    ELSE IF k \in DOMAIN df.rows[i] THEN df.rows[i][k]
                    ELSE NaN]]]

\* load(uuid, database): the label of the first entry of uuid; None is NaN
\* here, the callers treat the two alike
load(uuid, df) ==
  IF RowsOf(df, uuid) = {} THEN NaN ELSE df.rows[Min(RowsOf(df, uuid))]["label"]

\* Series.argsort().values of pandas 1.x/2.x: the positions (from 0) that
\* sort the values that are not NaN, counted among those values only, laid
\* over the places that are not NaN; the places of NaN hold -1.  Equal values
\* keep their order.
argsort(vals) ==
  LET notmask == SelectSeq([p \in DOMAIN vals |-> p], LAMBDA p : vals[p] # NaN)
      sorted == SortSeq([j \in DOMAIN notmask |-> j],
                        LAMBDA a, b : \/ vals[notmask[a]] < vals[notmask[b]]
                                      \/ /\ vals[notmask[a]] = vals[notmask[b]]
                                         /\ a < b)
      place(p) == Cardinality({q \in 1..p : vals[q] # NaN})
  IN [p \in DOMAIN vals |->
        IF vals[p] = NaN THEN -1 ELSE sorted[place(p)] - 1]

\* values[indices] of numpy: a negative index counts from the end
take(values, indices) ==
  [j \in DOMAIN indices |->
     values[IF indices[j] < 0 THEN Len(values) + indices[j] + 1
            ELSE indices[j] + 1]]

\* [::-1]
reversed(s) == [j \in DOMAIN s |-> s[Len(s) + 1 - j]]

\* Series.median(): NaN is skipped; NaN when nothing is left
median(vals) ==
  LET notmask == SelectSeq(vals, LAMBDA v : v # NaN)
      n == Len(notmask)
      sorted == SortSeq(notmask, LAMBDA a, b : a < b)
      nth(j) == sorted[j]
  IN IF n = 0 THEN NaN
     ELSE IF n % 2 = 1 THEN nth((n + 1) \div 2)
     ELSE (nth(n \div 2) + nth(n \div 2 + 1)) \div 2

SortingOptions ==
  {"uuid", "Predicted bad first", "Predicted good first", "middle"}

\* re_order_images(image_files, database) with the option chosen in the
\* sorting window: the sequence, the DataFrame (the "middle" option adds a
\* column to it) and whether reading predicted_label raises KeyError.
re_order_images(option, df) ==
  IF option = "uuid"
  THEN [raises |-> FALSE, df |-> df, image_files |-> SortedCorpus]
  ELSE IF ~HasCol(df, "predicted_label")
  THEN [raises |-> TRUE, df |-> df, image_files |-> <<>>]
  ELSE LET predicted == Column(df, "predicted_label")
           m == median(predicted)
           distance == [i \in DOMAIN df.rows |->
                          IF predicted[i] = NaN \/ m = NaN THEN NaN
                          ELSE Abs(predicted[i] - m)]
           df2 == IF option = "middle"
                  THEN WithColumn(df, "distance_from_median", distance)
                  ELSE df
           sorted_indices ==
             IF option = "Predicted bad first" THEN argsort(predicted)
             ELSE IF option = "Predicted good first"
             THEN reversed(argsort(predicted))
             ELSE argsort(distance)
       IN [raises |-> FALSE, df |-> df2,
           image_files |-> take(Column(df, "uuid"), sorted_indices)]

\* mutant of BackupsAfter: the backups found in the folder are not removed
BackupsKept ==
  backups \cup {[owner |-> "store", stamp |-> now, content |-> file']}

\* create_backup(database_path): every file of the folder with "_db_backup_"
\* in its path is removed, then the store file is copied to a file named
\* after the time.  Copying a store file that does not exist raises.
BackupsAfter == {[owner |-> "store", stamp |-> now, content |-> file']}

\* lines 186-201: load the store, back-fill, plan the sequence
StartSession(option, skip) ==
  /\ mode = "idle"
  /\ runs < MaxRuns
  /\ runs' = runs + 1
  /\ now' = now + 1
  /\ LET loaded == IF file.exists THEN read_csv(file) ELSE EmptyFrame
         plan == re_order_images(option, fix_database(loaded))
     IN IF plan.raises
        THEN /\ Fail("KeyError")
        ELSE /\ mode' = "label"
             /\ database' = plan.df
             /\ sorting_option' = option
             /\ image_files' = plan.image_files
             /\ current_index' = 0
             /\ skip_labeled_files' = skip
             /\ skipArg' = skip
             /\ pc' = "loop"
             /\ key' = 0
             /\ acted' = FALSE
             /\ accepted' = NoAccepted
             /\ UNCHANGED <<error, passVars>>
  /\ UNCHANGED <<file, backups, keys, oldFile>>

\* mutant of Skips: labeled images are never passed over
SkipsNever(label) == FALSE

\* line 207: the image at the index is passed over
Skips(label) == label # NaN /\ skip_labeled_files

\* lines 204-222, from the top of the while loop to the image on screen:
\* an entry with a label is skipped while skip_labeled_files holds; the
\* first image shown clears skip_labeled_files.  Showing an image without a
\* label reads its predicted_label, which raises when it has no entry.
Present ==
  /\ mode = "label"
  /\ pc = "loop"
  /\ IF current_index >= Len(image_files)
     THEN /\ Fail("IndexError")
          /\ UNCHANGED <<file, backups, now, runs, keys, oldFile>>
     ELSE LET uuid == image_files[current_index + 1]
              label == load(uuid, database)
          IN IF Skips(label)
             THEN /\ current_index' = current_index + 1
                  /\ UNCHANGED <<file, backups, now, mode, runs, keys,
                                 error, database, sorting_option, image_files,
                                 skip_labeled_files, pc, key, skipArg, acted,
                                 accepted, passVars, oldFile>>
             ELSE IF label = NaN /\ ~HasCol(database, "predicted_label")
             THEN /\ Fail("KeyError")
                  /\ UNCHANGED <<file, backups, now, runs, keys, oldFile>>
             ELSE IF label = NaN /\ RowsOf(database, uuid) = {}
             THEN /\ Fail("IndexError")
                  /\ UNCHANGED <<file, backups, now, runs, keys, oldFile>>
             ELSE /\ skip_labeled_files' = FALSE
                  /\ pc' = "waitKey"
                  /\ key' = 0
                  /\ UNCHANGED <<file, backups, now, mode, runs, keys,
                                 error, database, sorting_option, image_files,
                                 current_index, skipArg, acted, accepted,
                                 passVars, oldFile>>

IsDigit(k) == ORD_0 <= k /\ k <= ORD_9

IsQuit(k) == k = ORD_q \/ k = KEY_ESC

\* label = (key - ord('0')) / 10.0, in units of 0.05
LabelOf(k) == 2 * (k - ORD_0)

\* lines 225-238: what the key does to the DataFrame and to the index
KeyDatabase(k) ==
  IF IsDigit(k)
  THEN relabel_image(image_files[current_index + 1], LabelOf(k), database, now)
  ELSE database

\* mutant of KeyIndex: a key without a branch moves on like the right arrow
KeyIndexElseNext(k) ==
  IF k = KEY_LEFT THEN current_index - 1
  ELSE IF IsQuit(k) THEN current_index
  ELSE current_index + 1

KeyIndex(k) ==
  IF IsDigit(k) \/ k = KEY_RIGHT THEN current_index + 1
  ELSE IF k = KEY_LEFT THEN current_index - 1
  ELSE current_index

\* mutant of WrapIndex: the index stops at the ends of the sequence
WrapIndexClamped(i) ==
  IF i < 0 THEN 0
  ELSE IF i >= Len(image_files) THEN Len(image_files) - 1
  ELSE i

\* line 240
WrapIndex(i) == i % Len(image_files)

\* mutant of KeyFile: the save of line 231 is missing
KeyFileUnsaved(k) == file

\* line 231: a numeric key saves the store
KeyFile(k) == IF IsDigit(k) THEN to_csv(KeyDatabase(k)) ELSE file

\* lines 223-243: one key of the reviewer handled to the end; backup says
\* whether random.random() < 0.1
KeyPress(k, backup) ==
  /\ mode = "label"
  /\ pc = "waitKey"
  /\ k \in KeyCodes
  /\ keys < MaxKeys
  /\ IF IsQuit(k)
     THEN /\ mode' = "idle"
          /\ database' = EmptyFrame
          /\ SessionAtRest
          /\ keys' = keys + 1
          /\ UNCHANGED <<file, backups, now, runs, error, passVars, oldFile>>
     ELSE /\ file' = KeyFile(k)
          /\ keys' = keys + 1
          /\ IF backup /\ ~file'.exists
             THEN /\ backups' = {}
                  /\ Fail("FileNotFoundError")
             ELSE /\ database' = KeyDatabase(k)
                  /\ current_index' = WrapIndex(KeyIndex(k))
                  /\ key' = k
                  /\ acted' = TRUE
                  /\ accepted' =
                       IF IsDigit(k)
                       THEN [uuid |-> image_files[current_index + 1],
                             label |-> LabelOf(k)]
                       ELSE accepted
                  /\ pc' = "loop"
                  /\ backups' = IF backup THEN BackupsAfter ELSE backups
                  /\ UNCHANGED <<mode, error, sorting_option, image_files,
                                 skip_labeled_files, skipArg, passVars>>
          /\ UNCHANGED <<now, runs, oldFile>>

\* a numeric key whose save, line 231, is interrupted after j lines
KeyPressKilled(k, j) ==
  /\ mode = "label"
  /\ pc = "waitKey"
  /\ k \in KeyCodes
  /\ IsDigit(k)
  /\ keys < MaxKeys
  /\ j \in KillPoints(KeyDatabase(k))
  /\ Killed(KeyDatabase(k), j)

Next ==
  \/ \E order \in ListOrders : StartPredict(order)
  \/ PredictIter
  \/ PredictIterNoFeature
  \/ \E k \in (-1)..MaxKillLines : PredictIterKilled(k)
  \/ PredictEnd
  \/ \E k \in (-1)..MaxKillLines : PredictEndKilled(k)
  \/ \E option \in SortingOptions, skip \in BOOLEAN : StartSession(option, skip)
  \/ Present
  \/ \E k \in KeyCodes, backup \in BOOLEAN : KeyPress(k, backup)
  \/ \E k \in KeyCodes, j \in (-1)..MaxKillLines : KeyPressKilled(k, j)
  \/ Terminate

Spec == Init /\ [][Next]_vars

\* ---------------------------------------- relabel_image on its own
\* label_dataset never reaches the new-entry branch of relabel_image: an
\* image without an entry raises at line 219 before a key is read.  The
\* function is therefore also run by itself, on small stores: the store
\* file holds the store before the call, accepted holds the arguments, now
\* the time of the call.
RelabelIds == 1..3

\* the stores with at most one entry per uuid of RelabelIds, in uuid order,
\* as a prediction pass and earlier sessions leave them
RECURSIVE RelabelRows(_)
RelabelRows(n) ==
  IF n = 0 THEN {<<>>}
  ELSE LET shorter == RelabelRows(n - 1)
       IN shorter \cup
          {Append(rows, [uuid |-> n, label |-> l, timestamp |-> 0,
                         predicted_label |-> ModelScore(n)]) :
             rows \in shorter, l \in {NaN, 2}}

RelabelStores ==
  {EmptyFrame} \cup
  {[cols |-> Append(BaseColumns, "predicted_label"), rows |-> rows] :
     rows \in RelabelRows(3)}

InitRelabel ==
  /\ database \in RelabelStores
  /\ file = to_csv(database)
  /\ accepted \in [uuid : RelabelIds, label : {LabelOf(ORD_0), LabelOf(ORD_0 + 4)}]
  /\ now \in 1..2
  /\ mode = "call"
  /\ backups = {}
  /\ runs = 0
  /\ keys = 0
  /\ error = "none"
  /\ sorting_option = "uuid"
  /\ image_files = <<>>
  /\ current_index = 0
  /\ skip_labeled_files = FALSE
  /\ pc = "-"
  /\ key = 0
  /\ skipArg = FALSE
  /\ acted = FALSE
  /\ img_files = <<>>
  /\ pos = 0
  /\ uuids = <<>>
  /\ n_predictions = 0
  /\ oldFile = Absent

Relabel ==
  /\ mode = "call"
  /\ mode' = "returned"
  /\ database' = relabel_image(accepted.uuid, accepted.label, database, now)
  /\ UNCHANGED <<file, backups, now, runs, keys, error, sessionVars, passVars,
                 oldFile>>

NextRelabel == Relabel

SpecRelabel == InitRelabel /\ [][NextRelabel]_vars

\* ---------------------------------------- fix_database on its own
\* fix_database applied twice to small stores: with and without the
\* predicted_label column, labels missing, 0.0 and 0.4, scores missing and
\* present.  The store file holds the store before the first call.
RECURSIVE BackfillRows(_, _)
BackfillRows(n, scores) ==
  IF n = 0 THEN {<<>>}
  ELSE LET shorter == BackfillRows(n - 1, scores)
           labels == {NaN, LabelOf(ORD_0), LabelOf(ORD_0 + 4)}
       IN shorter \cup
          IF scores
          THEN {Append(rows, [uuid |-> n, label |-> l, timestamp |-> 0,
                              predicted_label |-> p]) :
                  rows \in shorter, l \in labels, p \in {NaN, ModelScore(n)}}
          ELSE {Append(rows, [uuid |-> n, label |-> l, timestamp |-> 0]) :
                  rows \in shorter, l \in labels}

BackfillStores ==
  {[cols |-> BaseColumns, rows |-> rows] : rows \in BackfillRows(3, FALSE)}
  \cup {[cols |-> Append(BaseColumns, "predicted_label"), rows |-> rows] :
          rows \in BackfillRows(3, TRUE)}

InitBackfill ==
  /\ database \in BackfillStores
  /\ file = to_csv(database)
  /\ mode = "call"
  /\ backups = {}
  /\ now = 1
  /\ runs = 0
  /\ keys = 0
  /\ error = "none"
  /\ sorting_option = "uuid"
  /\ image_files = <<>>
  /\ current_index = 0
  /\ skip_labeled_files = FALSE
  /\ pc = "-"
  /\ key = 0
  /\ skipArg = FALSE
  /\ acted = FALSE
  /\ accepted = NoAccepted
  /\ img_files = <<>>
  /\ pos = 0
  /\ uuids = <<>>
  /\ n_predictions = 0
  /\ oldFile = Absent

Backfill ==
  /\ mode \in {"call", "once"}
  /\ mode' = IF mode = "call" THEN "once" ELSE "twice"
  /\ database' = fix_database(database)
  /\ UNCHANGED <<file, backups, now, runs, keys, error, sessionVars, passVars,
                 oldFile>>

NextBackfill == Backfill

SpecBackfill == InitBackfill /\ [][NextBackfill]_vars

\* ------------------------------- a session on a small store, on its own
\* Within the bounds of Spec a store has 16 records and at most two labels.
\* Here a session starts (lines 186-201, done) on a store of one to three
\* records, any of them labeled, as an interrupted save and earlier
\* sessions leave it, with any sorting option and either value of
\* skip_labeled_files; the reviewer then presses keys.
SessionStores == {df \in RelabelStores : df.rows # <<>>}

InitSession ==
  \E store \in SessionStores, option \in SortingOptions, skip \in BOOLEAN :
    LET plan == re_order_images(option, fix_database(store))
    IN /\ ~plan.raises
       /\ file = to_csv(store)
       /\ database = plan.df
       /\ sorting_option = option
       /\ image_files = plan.image_files
       /\ skip_labeled_files = skip
       /\ skipArg = skip
       /\ current_index = 0
       /\ pc = "loop"
       /\ key = 0
       /\ acted = FALSE
       /\ accepted = NoAccepted
       /\ mode = "label"
       /\ backups = {}
       /\ now = 1
       /\ runs = 1
       /\ keys = 0
       /\ error = "none"
       /\ img_files = <<>>
       /\ pos = 0
       /\ uuids = <<>>
       /\ n_predictions = 0
       /\ oldFile = Absent

NextSession ==
  \/ Present
  \/ \E k \in KeyCodes, backup \in BOOLEAN : KeyPress(k, backup)
  \/ Terminate

SpecSession == InitSession /\ [][NextSession]_vars

\* ====================================================================
\* Properties
\* ====================================================================
\* the store a complete store file holds
Stored == read_csv(file)

\* the store file is one a save completed
FileComplete == file.exists /\ mode # "killed"

Running == mode \in {"label", "predict"}

\* every row of df with a label has that label as its predicted_label
BackFilled(df) ==
  \A i \in DOMAIN df.rows :
    df.rows[i]["label"] # NaN =>
      /\ HasCol(df, "predicted_label")
      /\ df.rows[i]["predicted_label"] = df.rows[i]["label"]

\* no two rows of df have the same uuid
UniqueIds(df) ==
  \A i, j \in DOMAIN df.rows :
    df.rows[i]["uuid"] = df.rows[j]["uuid"] => i = j

\* C1: in every reachable store, in memory or on disk, every record with a
\* label has predicted_label equal to that label.
C1_BackFillInvariant ==
  /\ Running => BackFilled(database)
  /\ FileComplete => BackFilled(Stored)

\* C2: a step of the prediction pass leaves the label of every record as it
\* was, and the predicted_label of every record that has a label; so does
\* the store it saves when it ends.
PassStore == IF mode' = "predict" THEN database' ELSE read_csv(file')

C2_PredictionsKeepLabels ==
  [][(mode = "predict" /\ mode' \in {"predict", "idle"}) =>
       \A i \in DOMAIN database.rows :
         /\ i \in DOMAIN PassStore.rows
         /\ PassStore.rows[i]["uuid"] = database.rows[i]["uuid"]
         /\ PassStore.rows[i]["label"] = database.rows[i]["label"]
         /\ database.rows[i]["label"] # NaN =>
              PassStore.rows[i]["predicted_label"] =
                database.rows[i]["predicted_label"]]_vars

\* C2 witness: predict has run on a store that holds a labeled record
C2_Witness ==
  /\ mode = "predict"
  /\ n_predictions > 0
  /\ \E i \in DOMAIN database.rows : database.rows[i]["label"] # NaN

\* C3: the store, in memory or on disk, holds at most one record per id.
C3_UniqueIds ==
  /\ Running => UniqueIds(database)
  /\ FileComplete => UniqueIds(Stored)

\* C4: relabel_image on a uuid without a record adds exactly one record, with
\* the given label, predicted_label equal to the label and the call time as
\* timestamp, and changes no other record.
C4_RelabelCreates ==
  (mode = "returned" /\ RowsOf(Stored, accepted.uuid) = {}) =>
    /\ Len(database.rows) = Len(Stored.rows) + 1
    /\ \A i \in DOMAIN Stored.rows :
         \A c \in Range(Stored.cols) : database.rows[i][c] = Stored.rows[i][c]
    /\ LET new == database.rows[Len(database.rows)]
       IN /\ new["uuid"] = accepted.uuid
          /\ new["label"] = accepted.label
          /\ new["timestamp"] = now
          /\ HasCol(database, "predicted_label")
          /\ new["predicted_label"] = accepted.label

\* C5: whenever an image is on screen after a numeric label was accepted,
\* the store file holds that label for the labeled uuid.
C5_CommittedBeforePresenting ==
  (mode = "label" /\ pc = "waitKey" /\ accepted.label # NaN) =>
    /\ file.exists
    /\ \E i \in DOMAIN Stored.rows :
         /\ Stored.rows[i]["uuid"] = accepted.uuid
         /\ Stored.rows[i]["label"] = accepted.label

\* C5 witness: an image is on screen after a numeric label was accepted
C5_Witness == mode = "label" /\ pc = "waitKey" /\ accepted.label # NaN

\* C6: after an interrupted save the store file is the complete previous
\* store file or the complete new one.
C6_AtomicSave ==
  mode = "killed" => (file = oldFile \/ file = to_csv(database))

\* C7: the left arrow moves the index to (i - 1) mod N and the right arrow
\* to (i + 1) mod N: left from 0 reaches N - 1, right from N - 1 reaches 0.
C7_NavigationWraps ==
  [][(mode = "label" /\ pc = "waitKey" /\ pc' = "loop") =>
       LET N == Len(image_files)
       IN /\ key' = KEY_LEFT =>
               current_index' = IF current_index = 0 THEN N - 1
                                ELSE current_index - 1
          /\ key' = KEY_RIGHT =>
               current_index' = IF current_index = N - 1 THEN 0
                                ELSE current_index + 1]_vars

\* C7 witness: the right arrow has wrapped from N - 1 to 0 (the session,
\* which starts at 0, got to N - 1 by the left arrow)
C7_Witness ==
  /\ mode = "label"
  /\ pc = "loop"
  /\ key = KEY_RIGHT
  /\ current_index = 0
  /\ Len(image_files) > 2

\* the image on screen has a record with a label
ShowsLabeled ==
  /\ mode = "label"
  /\ pc = "waitKey"
  /\ load(image_files[current_index + 1], database) # NaN

\* C8 as claimed: with skip_labeled_files passed as True, no image whose
\* record has a label is ever on screen.
C8_SkipAtEveryStep == skipArg => ~ShowsLabeled

\* C8 amended: with skip_labeled_files passed as True, the first image the
\* session shows has no label; the skip ends with the first image shown.
C8_SkipUntilFirstShown ==
  /\ (skipArg /\ ~acted) => ~ShowsLabeled
  /\ (mode = "label" /\ (acted \/ pc = "waitKey")) => ~skip_labeled_files

\* C8 witness: the session has passed over labeled images at its start and
\* shows its first image
C8_Witness ==
  /\ mode = "label"
  /\ pc = "waitKey"
  /\ skipArg
  /\ ~acted
  /\ current_index > 0

\* C9: the planned sequence is a permutation of the corpus ids.
C9_PlanIsPermutation ==
  mode = "label" =>
    /\ Len(image_files) = NumImages
    /\ Range(image_files) = Corpus

\* the places of uuid in the planned sequence
Places(uuid) == {p \in DOMAIN image_files : image_files[p] = uuid}

\* the predicted_label of the record of uuid, NaN without one
PredictedOf(uuid) ==
  IF RowsOf(database, uuid) = {} \/ ~HasCol(database, "predicted_label")
  THEN NaN
  ELSE database.rows[Min(RowsOf(database, uuid))]["predicted_label"]

\* C10: with "Predicted bad first" every corpus id with a predicted_label
\* comes before every corpus id without one, and the predicted_label of the
\* scored ids does not decrease along the sequence.
C10_PredictedAscending ==
  (mode = "label" /\ sorting_option = "Predicted bad first") =>
    /\ \A u, v \in Corpus :
         (PredictedOf(u) # NaN /\ PredictedOf(v) = NaN) =>
           /\ Places(u) # {}
           /\ Places(v) # {}
           /\ \A p \in Places(u), q \in Places(v) : p < q
    /\ \A p, q \in DOMAIN image_files :
         (p < q /\ PredictedOf(image_files[p]) # NaN
                /\ PredictedOf(image_files[q]) # NaN) =>
           PredictedOf(image_files[p]) <= PredictedOf(image_files[q])

\* the distance of the predicted_label of uuid from the median of the
\* predicted_label values present in the store, NaN for an unscored uuid
DistanceOf(uuid) ==
  IF PredictedOf(uuid) = NaN THEN NaN
  ELSE Abs(PredictedOf(uuid) - median(Column(database, "predicted_label")))

\* C11: with "middle" the planned sequence holds the corpus ids by
\* ascending distance of predicted_label from the median of the present
\* predicted_label values; unscored ids come last, and ids at equal distance
\* appear in identifier order.
C11_MedianDistanceOrder ==
  (mode = "label" /\ sorting_option = "middle") =>
    /\ \A u, v \in Corpus :
         (DistanceOf(u) # NaN /\ DistanceOf(v) = NaN) =>
           /\ Places(u) # {}
           /\ Places(v) # {}
           /\ \A p \in Places(u), q \in Places(v) : p < q
    /\ \A p, q \in DOMAIN image_files :
         (p < q /\ DistanceOf(image_files[p]) # NaN
                /\ DistanceOf(image_files[q]) # NaN) =>
           /\ DistanceOf(image_files[p]) <= DistanceOf(image_files[q])
           /\ DistanceOf(image_files[p]) = DistanceOf(image_files[q]) =>
                image_files[p] < image_files[q]

\* the backups of the store among the backup files of its folder
StoreBackups == {b \in backups : b.owner = "store"}

\* a key was handled to line 242 and random.random() < 0.1 was fired (the
\* step of such a key records it in key, or ends in the failure of the copy)
SnapshotEvent(fired) ==
  /\ mode = "label"
  /\ pc = "waitKey"
  /\ \E k \in KeyCodes :
       /\ ~IsQuit(k)
       /\ key' = k \/ mode' = "failed"
       /\ KeyPress(k, fired)

\* C12: at most one backup of the store exists at any time; a snapshot that
\* fires leaves exactly one, equal to the store file of that moment, and a
\* snapshot event that does not fire leaves the backups as they were.
C12_RollingBackup ==
  /\ [](Cardinality(StoreBackups) <= 1)
  /\ [][/\ SnapshotEvent(TRUE) =>
             /\ Cardinality(StoreBackups') = 1
             /\ \A b \in StoreBackups' : b.content = file' /\ b.stamp = now'
        /\ SnapshotEvent(FALSE) => backups' = backups]_vars

\* C12 witness: in a session that handled two keys the only backup file is
\* the one of the store, taken after the label just accepted was saved
C12_Witness ==
  /\ mode = "label"
  /\ keys = 2
  /\ accepted.label # NaN
  /\ backups = {[owner |-> "store", stamp |-> now, content |-> file]}
  /\ file = to_csv(database)

\* C13: a step that handles a navigation key or a key with no meaning
\* creates and destroys no backup, and no step does while the store file
\* has never been written.
C13_SnapshotOnlyOnCommit ==
  [][/\ (mode = "label" /\ pc = "waitKey" /\ pc' = "loop" /\ ~IsDigit(key'))
          => backups' = backups
     /\ ~file'.exists => backups' = backups]_vars

\* C14: fix_database applied to a store it was already applied to changes
\* nothing; and applied once it keeps the rows and, of their cells, changes
\* only the predicted_label of the rows that have a label.
C14_BackfillIdempotent ==
  /\ [][(mode = "once" /\ mode' = "twice") => database' = database]_vars
  /\ [](mode \in {"once", "twice"} =>
         /\ DOMAIN database.rows = DOMAIN Stored.rows
         /\ Range(database.cols) \subseteq Range(Stored.cols) \cup {"predicted_label"}
         /\ \A i \in DOMAIN Stored.rows :
              /\ \A c \in Range(Stored.cols) :
                   (c # "predicted_label" \/ Stored.rows[i]["label"] = NaN) =>
                     database.rows[i][c] = Stored.rows[i][c]
              /\ \A c \in Range(database.cols) \ Range(Stored.cols) :
                   Stored.rows[i]["label"] = NaN => database.rows[i][c] = NaN)

\* C14 witness: the second application has run on a store that the first
\* one changed, and that holds a record without a label
C14_Witness ==
  /\ mode = "twice"
  /\ database # Stored
  /\ \E i \in DOMAIN database.rows :
       database.rows[i]["label"] = NaN /\ database.rows[i]["predicted_label"] # NaN

\* the key is none of the keys label_dataset has a branch for
Unrecognized(k) ==
  ~IsDigit(k) /\ ~IsQuit(k) /\ k # KEY_LEFT /\ k # KEY_RIGHT

\* C15: handling a key that is neither a digit nor an arrow nor quit leaves
\* the index, the DataFrame and the store file as they were, and the loop
\* then shows the image of that same index again.
C15_UnrecognizedKeyIsNoOp ==
  [][/\ (mode = "label" /\ pc = "waitKey" /\ pc' = "loop" /\ Unrecognized(key'))
          => /\ mode' = "label"
             /\ current_index' = current_index
             /\ image_files' = image_files
             /\ database' = database
             /\ file' = file
     /\ (mode = "label" /\ pc = "loop" /\ acted /\ Unrecognized(key))
          => /\ mode' = "label"
             /\ pc' = "waitKey"
             /\ current_index' = current_index
             /\ image_files' = image_files
             /\ database' = database
             /\ file' = file]_vars

\* C15 witness: the space key was handled on an image other than the first
C15_Witness ==
  /\ mode = "label"
  /\ pc = "loop"
  /\ Unrecognized(key)
  /\ acted
  /\ current_index > 0

\* every row of the store a is a row of the store b, at the same place, for
\* the same uuid, and with a label if it had one
Grows(a, b) ==
  \A i \in DOMAIN a.rows :
    /\ i \in DOMAIN b.rows
    /\ b.rows[i]["uuid"] = a.rows[i]["uuid"]
    /\ a.rows[i]["label"] # NaN => b.rows[i]["label"] # NaN

\* the cells of the column c of a store file, line by line
CsvColumn(f, c) ==
  LET at == CHOOSE j \in DOMAIN f.header : f.header[j] = c
  IN [i \in DOMAIN f.lines |-> f.lines[i][at]]

\* Grows for stores given by their uuid and label columns
GrowsBy(ids, labels, ids2, labels2) ==
  \A i \in DOMAIN ids :
    /\ i \in DOMAIN ids2
    /\ ids2[i] = ids[i]
    /\ labels[i] # NaN => labels2[i] # NaN

\* C16: no step of a running program (load and back-fill, relabel, predict)
\* and no completed save removes a record or the label of a record: the
\* DataFrame holds what the store file holds, and both only grow.
C16_RecordsNeverDeleted ==
  [][/\ (mode' \in {"label", "predict"} /\ (file' # file \/ database' # database))
          => GrowsBy(CsvColumn(file', "uuid"), CsvColumn(file', "label"),
                     Column(database', "uuid"), Column(database', "label"))
     /\ (Running /\ mode' = mode /\ database' # database)
          => Grows(database, database')
     /\ (mode' # "killed" /\ file' # file)
          => GrowsBy(CsvColumn(file, "uuid"), CsvColumn(file, "label"),
                     CsvColumn(file', "uuid"), CsvColumn(file', "label"))]_vars

\* C16 witness: after a later prediction pass has saved its entries, the
\* store file still holds a record labeled in an earlier session
C16_Witness ==
  /\ mode = "idle"
  /\ file.exists
  /\ \E i, j \in DOMAIN Stored.rows :
       /\ Stored.rows[i]["label"] # NaN
       /\ Stored.rows[i]["timestamp"] < now
       /\ Stored.rows[j]["label"] = NaN
       /\ Stored.rows[j]["timestamp"] = now

\* the store df holds a record of uuid with a predicted_label
Scored(df, uuid) ==
  /\ HasCol(df, "predicted_label")
  /\ \E i \in RowsOf(df, uuid) : df.rows[i]["predicted_label"] # NaN

\* C17: when the prediction pass ends, the store it saves holds a record
\* with a predicted_label for every corpus id that has no label.
C17_PassScoresAll ==
  [][(mode = "predict" /\ mode' = "idle") =>
       \A uuid \in Corpus :
         load(uuid, read_csv(file')) = NaN => Scored(read_csv(file'), uuid)]_vars

\* C18: when the prediction pass fails, the store file holds every
\* prediction that predict had written to the DataFrame by then, those of
\* the batches before the one that failed.
C18_FlushAfterEachBatch ==
  [][(mode = "predict" /\ mode' = "failed") =>
       \A i \in DOMAIN database.rows :
         database.rows[i]["predicted_label"] # NaN =>
           /\ file'.exists
           /\ i \in DOMAIN read_csv(file').rows
           /\ read_csv(file').rows[i]["uuid"] = database.rows[i]["uuid"]
           /\ read_csv(file').rows[i]["predicted_label"] =
                database.rows[i]["predicted_label"]]_vars

\* C19: the store file holds no column but uuid, label, timestamp and
\* predicted_label; distance_from_median is never written to it.
C19_DistanceNotPersisted ==
  file.exists =>
    Range(file.header) \subseteq Range(BaseColumns) \cup {"predicted_label"}

\* the record of uuid holds the label 0.0
ZeroLabeled(df, uuid) == load(uuid, df) = LabelOf(ORD_0)

\* C20: a record whose label is 0.0 counts as labeled: the skip at the
\* start of a session passes it over, the back-fill at the start of a
\* session copies the 0.0 to its predicted_label, and the prediction pass
\* neither takes its uuid into a batch nor changes its row.
C20_ZeroIsALabel ==
  /\ []((mode = "label" /\ pc = "waitKey" /\ skipArg /\ ~acted) =>
          ~ZeroLabeled(database, image_files[current_index + 1]))
  /\ []((mode = "label" /\ ~acted) =>
          \A i \in DOMAIN database.rows :
            database.rows[i]["label"] = LabelOf(ORD_0) =>
              /\ HasCol(database, "predicted_label")
              /\ database.rows[i]["predicted_label"] = LabelOf(ORD_0))
  /\ [](mode = "predict" =>
          \A i \in DOMAIN uuids : ~ZeroLabeled(database, uuids[i]))
  /\ [][(mode = "predict" /\ mode' = "predict") =>
          \A i \in DOMAIN database.rows :
            database.rows[i]["label"] = LabelOf(ORD_0) =>
              database'.rows[i] = database.rows[i]]_vars

\* C20 witness: a session started with the skip has passed over an image
\* labeled 0.0, whose predicted_label the back-fill has set to 0.0
C20_Witness ==
  /\ mode = "label"
  /\ pc = "waitKey"
  /\ skipArg
  /\ ~acted
  /\ \E p \in 1..current_index :
       /\ ZeroLabeled(database, image_files[p])
       /\ PredictedOf(image_files[p]) = LabelOf(ORD_0)

\* C21: while a session runs, the index is a position of the planned
\* sequence: 0 <= current_index < N, also while the skip at the start is
\* passing over labeled ids.
C21_IndexValid ==
  mode = "label" =>
    /\ 0 <= current_index
    /\ current_index < Len(image_files)

\* the backup files of the folder that belong to other stores
ForeignBackups == {b \in backups : b.owner # "store"}

\* C22: no step removes or changes the backup of another store kept in the
\* same folder, and a snapshot taken on a key that saves nothing leaves the
\* store file as it was.
C22_SnapshotFrame ==
  [][/\ ForeignBackups' = ForeignBackups
     /\ (SnapshotEvent(TRUE) /\ ~IsDigit(key')) => file' = file]_vars

====
